---- MODULE Spec2Model ----
(***************************************************************************)
(* The two tutorial notebooks of the repository, each executed by one      *)
(* Jupyter kernel:                                                         *)
(*   tutorials/FlipChip_designtutorial.ipynb                   "flipchip"  *)
(*   tutorials/4 Analysis/B. Advanced - Direct use of the renderers/       *)
(*     4.19 Analyze a transmon using ElmerFEM.ipynb            "elmer"     *)
(* A notebook is a sequence of code cells, a cell a sequence of            *)
(* statements.  A statement is either local (an assignment to, or a        *)
(* display of, an object of the kernel, executed in one step) or a call    *)
(* into an engine outside the notebook (Metal GUI, Gmsh, ElmerFEM, ANSYS,  *)
(* the analysis library), which is issued and then either returns or       *)
(* raises.  The cells hold no try/except: an exception ends the run of the *)
(* cell.  The user runs the cells in order and may at any time go back and *)
(* run again from an earlier cell.  Import statements and cell magics only *)
(* bind names and are left out.                                            *)
(***************************************************************************)
EXTENDS Integers, Sequences, FiniteSets

\* ---------------------------------------------------------------- bounds
\* number of AddMaterial calls that may raise in one session
MaxAddFailures == 2
\* number of distinct capacitance matrices the solver may produce
NumMatrices == 2

VARIABLES
    notebook,           \* the notebook this kernel executes
    frontier,           \* last cell completed in the current in-order pass
    cell,               \* the cell being run, 0 when the kernel is idle
    pc,                 \* position of the next statement in the running cell
    active,             \* calls into external engines that are in progress
    ran,                \* statements executed by the current / last cell run
    lastStatus,         \* outcome of the current / last cell run
    hist,               \* workflow steps that have completed in this session
    \* ---- the design (both notebooks)
    components,         \* design.components: number of components per name
    overwrite_enabled,  \* design.overwrite_enabled
    nameClash,          \* a component was refused because its name is in use
    \* ---- flip-chip notebook
    chips,              \* design.chips
    newMaterial_name,   \* kernel variable newMaterial_name
    library,            \* materials of the ANSYS project
    handles,            \* ANSYS handles held through ans_prj / ansys
    matExists,          \* value returned by the last DoesMaterialExist
    addIssued,          \* number of AddMaterial calls issued
    addDone,            \* number of AddMaterial calls that returned
    addFailed,          \* number of AddMaterial calls that raised
    session,            \* the simulator session of eig_fc.sim is open
    \* ---- ElmerFEM notebook
    gmsh,               \* state of the model held by gmsh_renderer
    elmer,              \* progress of elmer_renderer
    capacitance_matrix, \* elmer_renderer.capacitance_matrix, 0 when None
    files,              \* the files of the working directory
    cap_matrix,         \* kernel variable cap_matrix, 0 when unbound
    opt1                \* opt1['cap_mat'], 0 when unbound

ctl   == <<notebook, frontier, cell, pc, active, ran, lastStatus, hist>>
datav == <<components, overwrite_enabled, nameClash, chips, newMaterial_name,
           library, handles, matExists, addIssued, addDone, addFailed,
           session, gmsh, elmer, capacitance_matrix, files, cap_matrix, opt1>>
vars  == <<ctl, datav>>

Notebooks == {"flipchip", "elmer"}

\* ------------------------------------------------- flip-chip notebook cells
Cell_init       == <<"DesignFlipChip", "set_design_name", "MetalGUI",
                     "set_overwrite_enabled">>
Cell_xmon       == <<"delete_all_components", "TransmonCross", "gui_rebuild",
                     "gui_autoscale">>
Cell_res        == <<"ReadoutResFC", "gui_rebuild", "gui_autoscale">>
Cell_show_chips == <<"show_chips">>
Cell_show_C     == <<"show_center_z_C">>
Cell_show_Q     == <<"show_center_z_Q">>
Cell_sep        == <<"set_center_z", "show_center_z_Q">>
Cell_matprops   == <<"set_newMaterial">>
\* the material cell without its last release
Cell_materialNoRelease ==
    <<"ProjectInfo", "GetDefinitionManager", "DoesMaterialExist",
      "AddMaterial", "project_release", "desktop_release", "app_release">>

Cell_material   == <<"ProjectInfo", "GetDefinitionManager",
                     "DoesMaterialExist", "AddMaterial", "project_release",
                     "desktop_release", "app_release", "ansys_release">>
Cell_assign     == <<"set_material_C", "set_material_Q">>
Cell_epr_init   == <<"EPRanalysis", "show_setup">>
Cell_epr_setup  == <<"update_setup", "show_setup">>
Cell_sim_run    == <<"sim_run">>
Cell_run_epr    == <<"set_dissipatives", "run_epr">>
Cell_close      == <<"sim_close">>

\* the chips are given the material before the material cell is run
FlipCellsAssignFirst ==
    <<Cell_init, Cell_xmon, Cell_res, Cell_show_chips, Cell_show_C,
      Cell_show_Q, Cell_sep, Cell_matprops, Cell_assign, Cell_material,
      Cell_epr_init, Cell_epr_setup, Cell_sim_run, Cell_run_epr, Cell_close>>

FlipCells == <<Cell_init, Cell_xmon, Cell_res, Cell_show_chips, Cell_show_C,
               Cell_show_Q, Cell_sep, Cell_matprops, Cell_material,
               Cell_assign, Cell_epr_init, Cell_epr_setup, Cell_sim_run,
               Cell_run_epr, Cell_close>>

\* --------------------------------------------------- ElmerFEM notebook cells
E_design       == <<"MultiPlanar", "MetalGUI">>
E_q1           == <<"TransmonPocket6", "gui_rebuild", "gui_autoscale">>
E_gmsh_wire    == <<"QGmshRenderer", "gmsh_render_design">>
E_gmsh_gui     == <<"gmsh_launch_gui">>
E_gmsh_mesh    == <<"gmsh_add_mesh", "gmsh_launch_gui">>
E_gmsh_custom  == <<"set_mesh_options", "gmsh_render_design", "gmsh_add_mesh",
                    "gmsh_launch_gui">>
E_gmsh_intelli == <<"set_mesh_options", "gmsh_render_and_mesh",
                    "gmsh_launch_gui">>
E_gmsh_export  == <<"gmsh_export_mesh">>
E_gmsh_close   == <<"gmsh_close">>
E_elmer_new    == <<"QElmerRenderer", "set_mesh_options">>
E_render       == <<"render_design">>
E_view         == <<"launch_gmsh_gui">>
E_export       == <<"export_mesh">>
E_setup        == <<"add_solution_setup">>
E_run          == <<"run">>
E_show         == <<"show_capacitance_matrix">>
E_post         == <<"display_post_processing_data">>
E_save         == <<"save_capacitance_matrix", "elmer_close">>
E_load         == <<"load_capacitance_matrix_from_file">>
E_cell         == <<"set_opt1", "Cell">>
E_subsystems   == <<"Subsystem", "set_q_opts", "Subsystem", "set_q_opts",
                    "Subsystem", "set_q_opts", "Subsystem">>
E_composite    == <<"CompositeSystem">>
E_graph        == <<"circuitGraph", "print">>
E_hilbert      == <<"create_hilbertspace", "print">>
E_interaction  == <<"add_interaction", "hamiltonian">>
E_results      == <<"hamiltonian_results">>
E_print        == <<"to_dataframe", "print", "print", "print">>
E_gs           == <<"compute_gs">>
E_hparams      == <<"show_h_params">>
E_close        == <<"main_window_close">>

\* the mesh is exported before the design is rendered
ElmerCellsExportFirst ==
    <<E_design, E_q1, E_gmsh_wire, E_gmsh_gui, E_gmsh_mesh, E_gmsh_custom,
      E_gmsh_intelli, E_gmsh_export, E_gmsh_close, E_elmer_new, E_export,
      E_view, E_render, E_setup, E_run, E_show, E_post, E_save, E_load,
      E_cell, E_subsystems, E_composite, E_graph, E_hilbert, E_interaction,
      E_results, E_print, E_gs, E_hparams, E_close>>

ElmerCells == <<E_design, E_q1, E_gmsh_wire, E_gmsh_gui, E_gmsh_mesh,
                E_gmsh_custom, E_gmsh_intelli, E_gmsh_export, E_gmsh_close,
                E_elmer_new, E_render, E_view, E_export, E_setup, E_run,
                E_show, E_post, E_save, E_load, E_cell, E_subsystems,
                E_composite, E_graph, E_hilbert, E_interaction, E_results,
                E_print, E_gs, E_hparams, E_close>>

\* statements executed inside the kernel, without a call to an engine
LocalStmts == {"set_design_name", "set_overwrite_enabled", "show_chips",
               "show_center_z_C", "show_center_z_Q", "set_center_z",
               "set_newMaterial", "set_material_C", "set_material_Q",
               "show_setup", "update_setup", "set_dissipatives",
               "set_mesh_options", "show_capacitance_matrix", "set_opt1",
               "set_q_opts", "print", "show_h_params"}

\* the steps of the documented workflows, whose completion is remembered
Tracked == {"render_design", "export_mesh", "add_solution_setup", "run",
            "show_capacitance_matrix", "display_post_processing_data",
            "save_capacitance_matrix", "load_capacitance_matrix_from_file",
            "ansys_release", "set_material_C", "set_material_Q"}

Cells == IF notebook = "flipchip" THEN FlipCells ELSE ElmerCells

Min(a, b) == IF a < b THEN a ELSE b

Curr == Cells[cell][pc]

\* ------------------------------------------------------------ initial state
DefaultChips ==
    [ch \in {"C_chip", "Q_chip"} |->
        [center_z |-> IF ch = "C_chip" THEN "0 um" ELSE "20 um",
         material |-> "silicon"]]

NoComponents == [n \in {"Q1", "R1"} |-> 0]

DefaultOverwrite == FALSE

Matrices == 1 .. NumMatrices

Absent == [kind |-> "absent", data |-> 0]

FileNames == {"test.msh", "cap_matrix.txt"}

\* text of the file that holds capacitance matrix m, and the matrix read
\* back from such a text
Encode(m) == [kind |-> "capmat", data |-> m]
Decode(f) == f.data

NewElmer == [rendered |-> FALSE, exported |-> FALSE, setup |-> FALSE]

Init ==
    /\ notebook \in Notebooks
    /\ frontier = 0 /\ cell = 0 /\ pc = 0
    /\ active = <<>> /\ ran = <<>> /\ lastStatus = "none"
    /\ hist = {}
    /\ components = NoComponents
    /\ overwrite_enabled = DefaultOverwrite
    /\ nameClash = FALSE
    /\ chips = DefaultChips
    /\ newMaterial_name = "undefined"
    /\ \/ notebook = "flipchip" /\ library \in {{"silicon"},
                                                {"silicon", "Si_11.45"}}
       \/ notebook = "elmer" /\ library = {"silicon"}
    /\ handles = {}
    /\ matExists = FALSE
    /\ addIssued = 0 /\ addDone = 0 /\ addFailed = 0
    /\ session = FALSE
    /\ gmsh = "none"
    /\ elmer = NewElmer
    /\ capacitance_matrix = 0
    /\ \/ notebook = "elmer"
          /\ \E old \in {Absent} \cup {Encode(m) : m \in Matrices} :
                files = [f \in FileNames |->
                            IF f = "cap_matrix.txt" THEN old ELSE Absent]
       \/ notebook = "flipchip" /\ files = [f \in FileNames |-> Absent]
    /\ cap_matrix = 0 /\ opt1 = 0

\* --------------------------------------------------------- kernel execution
\* the cells the user may run next: the one after the frontier, or any
\* earlier one again
Runnable == 1 .. Min(frontier + 1, Len(Cells))

StartCell(c) ==
    /\ cell = 0
    /\ c \in Runnable
    /\ cell' = c /\ pc' = 1
    /\ ran' = <<>> /\ lastStatus' = "running"
    /\ UNCHANGED <<notebook, frontier, active, hist, datav>>

\* go on to the statement skip places further, or end the cell
Step(skip) ==
    IF pc + skip > Len(Cells[cell])
    THEN /\ cell' = 0 /\ pc' = 0
         /\ frontier' = cell /\ lastStatus' = "ok"
    ELSE /\ cell' = cell /\ pc' = pc + skip
         /\ UNCHANGED <<frontier, lastStatus>>

\* statements started without waiting for the call in progress
CanIssueAsync == TRUE

\* a statement starts only when the previous one is over
CanIssue == active = <<>>

Entry(s, o) == [stmt |-> s, pos |-> pc, outcome |-> o]

\* the local statement s is executed
Executed(s) ==
    /\ cell # 0 /\ CanIssue
    /\ Curr = s /\ s \in LocalStmts
    /\ ran' = Append(ran, Entry(s, "done"))
    /\ hist' = hist \cup ({s} \cap Tracked)
    /\ Step(1)
    /\ UNCHANGED <<notebook, active>>

\* the call of the current statement is issued to its engine
Issue ==
    /\ cell # 0 /\ CanIssue
    /\ Curr \notin LocalStmts
    /\ active' = Append(active, Curr)
    /\ addIssued' = IF Curr = "AddMaterial" THEN addIssued + 1 ELSE addIssued
    /\ UNCHANGED <<notebook, frontier, cell, pc, ran, lastStatus, hist>>
    /\ UNCHANGED <<components, overwrite_enabled, nameClash, chips,
                   newMaterial_name, library, handles, matExists, addDone,
                   addFailed, session, gmsh, elmer, capacitance_matrix, files,
                   cap_matrix, opt1>>

\* the call s returns; execution goes on skip statements further
Returned(s, skip) ==
    /\ cell # 0 /\ active # <<>> /\ Head(active) = s
    /\ active' = Tail(active)
    /\ ran' = Append(ran, Entry(s, "ret"))
    /\ hist' = hist \cup ({s} \cap Tracked)
    /\ Step(skip)
    /\ UNCHANGED notebook

\* the matrix saved under another name than the one that is loaded
SaveNameOther == "test.msh"

SaveName == "cap_matrix.txt"
LoadName == "cap_matrix.txt"

\* a call that cannot succeed: reading a file that is not there
MustRaise ==
    /\ Head(active) = "load_capacitance_matrix_from_file"
    /\ files[LoadName].kind # "capmat"

\* any call in progress may raise; the AddMaterial calls that raise are
\* counted, and bounded
MayRaise == Head(active) = "AddMaterial" => addFailed < MaxAddFailures

\* the exception is swallowed and the cell goes on with its next statement
RaiseAndGoOn ==
    /\ cell # 0 /\ active # <<>>
    /\ MayRaise
    /\ addFailed' = IF Head(active) = "AddMaterial" THEN addFailed + 1
                                                  ELSE addFailed
    /\ active' = Tail(active)
    /\ ran' = Append(ran, Entry(Head(active), "raise"))
    /\ Step(1)
    /\ UNCHANGED <<notebook, hist>>
    /\ UNCHANGED <<components, overwrite_enabled, nameClash, chips,
                   newMaterial_name, library, handles, matExists, addIssued,
                   addDone, session, gmsh, elmer, capacitance_matrix, files,
                   cap_matrix, opt1>>

\* the call in progress raises: no handler, the run of the cell ends here
Raise ==
    /\ cell # 0 /\ active # <<>>
    /\ MayRaise
    /\ addFailed' = IF Head(active) = "AddMaterial" THEN addFailed + 1
                                                  ELSE addFailed
    /\ active' = Tail(active)
    /\ ran' = Append(ran, Entry(Head(active), "raise"))
    /\ cell' = 0 /\ pc' = 0
    /\ frontier' = cell - 1
    /\ lastStatus' = "error"
    /\ UNCHANGED <<notebook, hist>>
    /\ UNCHANGED <<components, overwrite_enabled, nameClash, chips,
                   newMaterial_name, library, handles, matExists, addIssued,
                   addDone, session, gmsh, elmer, capacitance_matrix, files,
                   cap_matrix, opt1>>

\* ------------------------------------------------ statements without effect
PlainLocal == {"set_design_name", "show_chips", "show_center_z_C",
               "show_center_z_Q", "show_setup", "update_setup",
               "set_dissipatives", "set_mesh_options",
               "show_capacitance_matrix", "set_q_opts", "print",
               "show_h_params"}

PlainCalls == {"MetalGUI", "gui_rebuild", "gui_autoscale",
               "GetDefinitionManager", "EPRanalysis", "run_epr",
               "gmsh_launch_gui", "launch_gmsh_gui",
               "display_post_processing_data", "elmer_close", "Cell",
               "Subsystem",
               "CompositeSystem", "circuitGraph", "create_hilbertspace",
               "add_interaction", "hamiltonian", "hamiltonian_results",
               "to_dataframe", "compute_gs", "main_window_close"}

\* a display, or an assignment to an object the model does not follow
LocalPlain ==
    /\ \E s \in PlainLocal : Executed(s)
    /\ UNCHANGED datav

\* return of a call whose result the model does not follow
ReturnPlain ==
    /\ \E s \in PlainCalls : Returned(s, 1)
    /\ UNCHANGED datav

\* ------------------------------------------------------------- the design
\* design = designs.DesignFlipChip(): a new, empty design
DesignFlipChip ==
    /\ Returned("DesignFlipChip", 1)
    /\ components' = NoComponents
    /\ overwrite_enabled' = DefaultOverwrite
    /\ chips' = DefaultChips
    /\ UNCHANGED <<nameClash, newMaterial_name, library, handles, matExists,
                   addIssued, addDone, addFailed, session, gmsh, elmer,
                   capacitance_matrix, files, cap_matrix, opt1>>

\* design = designs.MultiPlanar({}, True): a new, empty design with
\* overwrite_enabled passed as True
MultiPlanar ==
    /\ Returned("MultiPlanar", 1)
    /\ components' = NoComponents
    /\ overwrite_enabled' = TRUE
    /\ UNCHANGED <<nameClash, chips, newMaterial_name, library, handles,
                   matExists, addIssued, addDone, addFailed, session, gmsh,
                   elmer, capacitance_matrix, files, cap_matrix, opt1>>

\* overwriting left disabled
OverwriteSettingOff == FALSE

OverwriteSetting == TRUE

\* design.overwrite_enabled = True
SetOverwriteEnabled ==
    /\ Executed("set_overwrite_enabled")
    /\ overwrite_enabled' = OverwriteSetting
    /\ UNCHANGED <<components, nameClash, chips, newMaterial_name, library,
                   handles, matExists, addIssued, addDone, addFailed, session,
                   gmsh, elmer, capacitance_matrix, files, cap_matrix, opt1>>

\* design.delete_all_components()
delete_all_components ==
    /\ Returned("delete_all_components", 1)
    /\ components' = NoComponents
    /\ UNCHANGED <<overwrite_enabled, nameClash, chips, newMaterial_name,
                   library, handles, matExists, addIssued, addDone, addFailed,
                   session, gmsh, elmer, capacitance_matrix, files,
                   cap_matrix, opt1>>

\* a component named name is built in the design: a component of that name
\* is replaced when overwriting is enabled and refused otherwise
MakeComponent(name) ==
    IF components[name] > 0
    THEN IF overwrite_enabled
         THEN /\ components' = [components EXCEPT ![name] = (@ - 1) + 1]
              /\ UNCHANGED nameClash
         ELSE /\ nameClash' = TRUE
              /\ UNCHANGED components
    ELSE /\ components' = [components EXCEPT ![name] = 1]
         /\ UNCHANGED nameClash

\* q1 = TransmonCross(design, 'Q1', ...)
TransmonCross ==
    /\ Returned("TransmonCross", 1)
    /\ MakeComponent("Q1")
    /\ UNCHANGED <<overwrite_enabled, chips, newMaterial_name, library,
                   handles, matExists, addIssued, addDone, addFailed, session,
                   gmsh, elmer, capacitance_matrix, files, cap_matrix, opt1>>

\* r1 = ReadoutResFC(design, 'R1', ...)
ReadoutResFC ==
    /\ Returned("ReadoutResFC", 1)
    /\ MakeComponent("R1")
    /\ UNCHANGED <<overwrite_enabled, chips, newMaterial_name, library,
                   handles, matExists, addIssued, addDone, addFailed, session,
                   gmsh, elmer, capacitance_matrix, files, cap_matrix, opt1>>

\* q1 = TransmonPocket6(design, "Q1", ...)
TransmonPocket6 ==
    /\ Returned("TransmonPocket6", 1)
    /\ MakeComponent("Q1")
    /\ UNCHANGED <<overwrite_enabled, chips, newMaterial_name, library,
                   handles, matExists, addIssued, addDone, addFailed, session,
                   gmsh, elmer, capacitance_matrix, files, cap_matrix, opt1>>

\* ------------------------------------------- flip-chip notebook statements
\* the two chips share one size dictionary
SetCenterZShared(ch) ==
    [c \in DOMAIN ch |-> [ch[c] EXCEPT !.center_z = "10 um"]]

\* design.chips['Q_chip']['size']['center_z'] = '10 um'
SetCenterZ(ch) == [ch EXCEPT !["Q_chip"].center_z = "10 um"]

SetChipSeparation ==
    /\ Executed("set_center_z")
    /\ chips' = SetCenterZ(chips)
    /\ UNCHANGED <<components, overwrite_enabled, nameClash, newMaterial_name,
                   library, handles, matExists, addIssued, addDone, addFailed,
                   session, gmsh, elmer, capacitance_matrix, files,
                   cap_matrix, opt1>>

\* newMaterial_name = 'Si_11.45'
SetNewMaterial ==
    /\ Executed("set_newMaterial")
    /\ newMaterial_name' = "Si_11.45"
    /\ UNCHANGED <<components, overwrite_enabled, nameClash, chips, library,
                   handles, matExists, addIssued, addDone, addFailed, session,
                   gmsh, elmer, capacitance_matrix, files, cap_matrix, opt1>>

AnsysHandles == {"project", "desktop", "app", "ansys"}

\* ans_prj = project_info.ProjectInfo()
ProjectInfo ==
    /\ Returned("ProjectInfo", 1)
    /\ handles' = AnsysHandles
    /\ UNCHANGED <<components, overwrite_enabled, nameClash, chips,
                   newMaterial_name, library, matExists, addIssued, addDone,
                   addFailed, session, gmsh, elmer, capacitance_matrix, files,
                   cap_matrix, opt1>>

\* the material added without regard to the answer
AddNeededAlways(exists) == TRUE

\* if not defmanager.DoesMaterialExist(newMaterial_name):
AddNeeded(exists) == ~exists

DoesMaterialExist ==
    /\ Returned("DoesMaterialExist",
                IF AddNeeded(newMaterial_name \in library) THEN 1 ELSE 2)
    /\ matExists' = (newMaterial_name \in library)
    /\ UNCHANGED <<components, overwrite_enabled, nameClash, chips,
                   newMaterial_name, library, handles, addIssued, addDone,
                   addFailed, session, gmsh, elmer, capacitance_matrix, files,
                   cap_matrix, opt1>>

\* defmanager.AddMaterial(["NAME:%s"%(newMaterial_name), ...])
AddedMaterial == newMaterial_name

AddMaterial ==
    /\ Returned("AddMaterial", 1)
    /\ library' = library \cup {AddedMaterial}
    /\ addDone' = addDone + 1
    /\ UNCHANGED <<components, overwrite_enabled, nameClash, chips,
                   newMaterial_name, handles, matExists, addIssued, addFailed,
                   session, gmsh, elmer, capacitance_matrix, files,
                   cap_matrix, opt1>>

\* ans_prj.project.release() ... ansys.release()
ReleaseStmt == [project |-> "project_release", desktop |-> "desktop_release",
                app |-> "app_release", ansys |-> "ansys_release"]

Release(h) ==
    /\ Returned(ReleaseStmt[h], 1)
    /\ handles' = handles \ {h}
    /\ UNCHANGED <<components, overwrite_enabled, nameClash, chips,
                   newMaterial_name, library, matExists, addIssued, addDone,
                   addFailed, session, gmsh, elmer, capacitance_matrix, files,
                   cap_matrix, opt1>>

\* design.chips['C_chip']['material'] = newMaterial_name, and for Q_chip
AssignStmt == [C_chip |-> "set_material_C", Q_chip |-> "set_material_Q"]

AssignMaterial(c) ==
    /\ Executed(AssignStmt[c])
    /\ chips' = [chips EXCEPT ![c].material = newMaterial_name]
    /\ UNCHANGED <<components, overwrite_enabled, nameClash, newMaterial_name,
                   library, handles, matExists, addIssued, addDone, addFailed,
                   session, gmsh, elmer, capacitance_matrix, files,
                   cap_matrix, opt1>>

\* eig_fc.sim.run(name="qubitres", components=['Q1', 'R1'], ...)
SimRun ==
    /\ Returned("sim_run", 1)
    /\ session' = TRUE
    /\ UNCHANGED <<components, overwrite_enabled, nameClash, chips,
                   newMaterial_name, library, handles, matExists, addIssued,
                   addDone, addFailed, gmsh, elmer, capacitance_matrix, files,
                   cap_matrix, opt1>>

\* eig_fc.sim.close()
SimClose ==
    /\ Returned("sim_close", 1)
    /\ session' = FALSE
    /\ UNCHANGED <<components, overwrite_enabled, nameClash, chips,
                   newMaterial_name, library, handles, matExists, addIssued,
                   addDone, addFailed, gmsh, elmer, capacitance_matrix, files,
                   cap_matrix, opt1>>

\* -------------------------------------------- ElmerFEM notebook statements
\* gmsh_renderer = QGmshRenderer(design)
QGmshRenderer ==
    /\ Returned("QGmshRenderer", 1)
    /\ gmsh' = "empty"
    /\ UNCHANGED <<components, overwrite_enabled, nameClash, chips,
                   newMaterial_name, library, handles, matExists, addIssued,
                   addDone, addFailed, session, elmer, capacitance_matrix,
                   files, cap_matrix, opt1>>

\* gmsh_renderer.render_design(open_pins=[...], mesh_geoms=False)
GmshRenderDesign ==
    /\ Returned("gmsh_render_design", 1)
    /\ gmsh' = "wireframe"
    /\ UNCHANGED <<components, overwrite_enabled, nameClash, chips,
                   newMaterial_name, library, handles, matExists, addIssued,
                   addDone, addFailed, session, elmer, capacitance_matrix,
                   files, cap_matrix, opt1>>

\* gmsh_renderer.add_mesh(...)
GmshAddMesh ==
    /\ Returned("gmsh_add_mesh", 1)
    /\ gmsh' = "meshed"
    /\ UNCHANGED <<components, overwrite_enabled, nameClash, chips,
                   newMaterial_name, library, handles, matExists, addIssued,
                   addDone, addFailed, session, elmer, capacitance_matrix,
                   files, cap_matrix, opt1>>

\* gmsh_renderer.render_design(open_pins=[...], mesh_geoms=True)
GmshRenderAndMesh ==
    /\ Returned("gmsh_render_and_mesh", 1)
    /\ gmsh' = "meshed"
    /\ UNCHANGED <<components, overwrite_enabled, nameClash, chips,
                   newMaterial_name, library, handles, matExists, addIssued,
                   addDone, addFailed, session, elmer, capacitance_matrix,
                   files, cap_matrix, opt1>>

\* gmsh_renderer.export_mesh("test.msh")
GmshExportMesh ==
    /\ Returned("gmsh_export_mesh", 1)
    /\ files' = [files EXCEPT !["test.msh"] = [kind |-> "mesh", data |-> 0]]
    /\ UNCHANGED <<components, overwrite_enabled, nameClash, chips,
                   newMaterial_name, library, handles, matExists, addIssued,
                   addDone, addFailed, session, gmsh, elmer,
                   capacitance_matrix, cap_matrix, opt1>>

\* gmsh_renderer.close()
GmshClose ==
    /\ Returned("gmsh_close", 1)
    /\ gmsh' = "closed"
    /\ UNCHANGED <<components, overwrite_enabled, nameClash, chips,
                   newMaterial_name, library, handles, matExists, addIssued,
                   addDone, addFailed, session, elmer, capacitance_matrix,
                   files, cap_matrix, opt1>>

\* elmer_renderer = QElmerRenderer(design)
QElmerRenderer ==
    /\ Returned("QElmerRenderer", 1)
    /\ elmer' = NewElmer
    /\ capacitance_matrix' = 0
    /\ UNCHANGED <<components, overwrite_enabled, nameClash, chips,
                   newMaterial_name, library, handles, matExists, addIssued,
                   addDone, addFailed, session, gmsh, files, cap_matrix,
                   opt1>>

\* elmer_renderer.render_design(open_pins=[...], skip_junctions=True)
RenderDesign ==
    /\ Returned("render_design", 1)
    /\ elmer' = [elmer EXCEPT !.rendered = TRUE]
    /\ UNCHANGED <<components, overwrite_enabled, nameClash, chips,
                   newMaterial_name, library, handles, matExists, addIssued,
                   addDone, addFailed, session, gmsh, capacitance_matrix,
                   files, cap_matrix, opt1>>

\* elmer_renderer.export_mesh()
ExportMesh ==
    /\ Returned("export_mesh", 1)
    /\ elmer' = [elmer EXCEPT !.exported = TRUE]
    /\ UNCHANGED <<components, overwrite_enabled, nameClash, chips,
                   newMaterial_name, library, handles, matExists, addIssued,
                   addDone, addFailed, session, gmsh, capacitance_matrix,
                   files, cap_matrix, opt1>>

\* elmer_renderer.add_solution_setup('capacitance')
AddSolutionSetup ==
    /\ Returned("add_solution_setup", 1)
    /\ elmer' = [elmer EXCEPT !.setup = TRUE]
    /\ UNCHANGED <<components, overwrite_enabled, nameClash, chips,
                   newMaterial_name, library, handles, matExists, addIssued,
                   addDone, addFailed, session, gmsh, capacitance_matrix,
                   files, cap_matrix, opt1>>

\* elmer_renderer.run('capacitance'): the solver computes a matrix
Run ==
    /\ Returned("run", 1)
    /\ \E m \in Matrices : capacitance_matrix' = m
    /\ UNCHANGED <<components, overwrite_enabled, nameClash, chips,
                   newMaterial_name, library, handles, matExists, addIssued,
                   addDone, addFailed, session, gmsh, elmer, files,
                   cap_matrix, opt1>>

\* elmer_renderer.save_capacitance_matrix("cap_matrix.txt")
SaveCapacitanceMatrix ==
    /\ Returned("save_capacitance_matrix", 1)
    /\ files' = [files EXCEPT ![SaveName] = Encode(capacitance_matrix)]
    /\ UNCHANGED <<components, overwrite_enabled, nameClash, chips,
                   newMaterial_name, library, handles, matExists, addIssued,
                   addDone, addFailed, session, gmsh, elmer,
                   capacitance_matrix, cap_matrix, opt1>>

\* cap_matrix = load_capacitance_matrix_from_file("cap_matrix.txt")
LoadCapacitanceMatrix ==
    /\ Returned("load_capacitance_matrix_from_file", 1)
    /\ ~MustRaise
    /\ cap_matrix' = Decode(files[LoadName])
    /\ UNCHANGED <<components, overwrite_enabled, nameClash, chips,
                   newMaterial_name, library, handles, matExists, addIssued,
                   addDone, addFailed, session, gmsh, elmer,
                   capacitance_matrix, files, opt1>>

\* opt1 = dict(node_rename = {...}, cap_mat = cap_matrix, ...)
SetOpt1 ==
    /\ Executed("set_opt1")
    /\ opt1' = cap_matrix
    /\ UNCHANGED <<components, overwrite_enabled, nameClash, chips,
                   newMaterial_name, library, handles, matExists, addIssued,
                   addDone, addFailed, session, gmsh, elmer,
                   capacitance_matrix, files, cap_matrix>>

Next ==
    \/ \E c \in 1 .. Len(Cells) : StartCell(c)
    \/ Issue
    \/ Raise
    \/ LocalPlain
    \/ ReturnPlain
    \/ DesignFlipChip
    \/ MultiPlanar
    \/ SetOverwriteEnabled
    \/ delete_all_components
    \/ TransmonCross
    \/ ReadoutResFC
    \/ TransmonPocket6
    \/ SetChipSeparation
    \/ SetNewMaterial
    \/ ProjectInfo
    \/ DoesMaterialExist
    \/ AddMaterial
    \/ \E h \in AnsysHandles : Release(h)
    \/ \E c \in {"C_chip", "Q_chip"} : AssignMaterial(c)
    \/ SimRun
    \/ SimClose
    \/ QGmshRenderer
    \/ GmshRenderDesign
    \/ GmshAddMesh
    \/ GmshRenderAndMesh
    \/ GmshExportMesh
    \/ GmshClose
    \/ QElmerRenderer
    \/ RenderDesign
    \/ ExportMesh
    \/ AddSolutionSetup
    \/ Run
    \/ SaveCapacitanceMatrix
    \/ LoadCapacitanceMatrix
    \/ SetOpt1

Spec == Init /\ [][Next]_vars

\* ==================================================================== claims
IndexOf(c) == CHOOSE i \in 1 .. Len(Cells) : Cells[i] = c

\* the latest cell run was a run of cell c and it reached the end of the cell
Completed(c) == cell = 0 /\ lastStatus = "ok" /\ frontier = IndexOf(c)

\* the call s is in progress
InProgress(s) == active # <<>> /\ Head(active) = s

\* the statement s is the one about to be executed
AtStmt(s) == cell # 0 /\ Curr = s

Chain == <<"render_design", "export_mesh", "add_solution_setup", "run">>

MatrixUses == {"show_capacitance_matrix", "display_post_processing_data",
               "save_capacitance_matrix"}

\* C1: in the ElmerFEM notebook, render_design has completed before
\* export_mesh is issued, export_mesh before add_solution_setup,
\* add_solution_setup before run, and the capacitance matrix is displayed,
\* post-processed and saved only after run has completed on the renderer
\* that is then in use, which holds a matrix.
Thm_C1 ==
    notebook = "elmer" =>
        /\ \A i \in 2 .. Len(Chain) :
              (Chain[i] \in hist \/ InProgress(Chain[i]))
                  => Chain[i - 1] \in hist
        /\ InProgress("export_mesh") => elmer.rendered
        /\ InProgress("add_solution_setup") => elmer.exported
        /\ InProgress("run") => elmer.setup
        /\ \A s \in MatrixUses :
              (s \in hist \/ InProgress(s) \/ AtStmt(s)) => "run" \in hist
        /\ \A s \in MatrixUses :
              (InProgress(s) \/ AtStmt(s)) => capacitance_matrix \in Matrices

\* the matrix of a completed run is being saved
Wit_C1 ==
    /\ notebook = "elmer"
    /\ InProgress("save_capacitance_matrix")
    /\ capacitance_matrix \in Matrices
    /\ elmer = [rendered |-> TRUE, exported |-> TRUE, setup |-> TRUE]

\* C2: the capacitance matrix reaches the LOM analysis through the file
\* cap_matrix.txt: the name loaded is the name saved, the save has completed
\* when the load is issued and the file then holds the matrix that the latest
\* run left in elmer_renderer.capacitance_matrix, and the cap_mat handed to
\* Cell is the matrix read from that file, which is that same matrix.
Thm_C2 ==
    notebook = "elmer" =>
        /\ InProgress("load_capacitance_matrix_from_file")
              => /\ "save_capacitance_matrix" \in hist
                 /\ capacitance_matrix \in Matrices
                 /\ files[LoadName] = Encode(capacitance_matrix)
        /\ InProgress("Cell")
              => /\ opt1 = Decode(files[LoadName])
                 /\ opt1 = capacitance_matrix
                 /\ opt1 \in Matrices
        /\ LoadName = SaveName

\* Cell receives the matrix of the run, read back from the file
Wit_C2 ==
    /\ notebook = "elmer"
    /\ InProgress("Cell")
    /\ opt1 \in Matrices
    /\ files[LoadName] = Encode(opt1)

\* C3: at most one call into an external engine is in progress, it is the
\* call of the statement the kernel is at, and nothing else of the notebook
\* has started while it is in progress.
Thm_C3 ==
    /\ Len(active) <= 1
    /\ active # <<>> => cell # 0 /\ Curr = Head(active)

\* the solver runs, and it is the only call in progress
Wit_C3 == notebook = "elmer" /\ active = <<"run">> /\ AtStmt("run")

\* C4 as stated: AddMaterial is called only for a material that does not
\* exist, the material exists after the cell, and over any number of runs of
\* the cell AddMaterial is called at most once.
Cex_C4 ==
    notebook = "flipchip" =>
        /\ InProgress("AddMaterial") => newMaterial_name \notin library
        /\ Completed(Cell_material) => newMaterial_name \in library
        /\ addIssued <= 1

\* C4 amended: AddMaterial is called only for a material that does not
\* exist, the material exists after every run of the cell that reaches its
\* end, and over any number of runs of the cell AddMaterial succeeds at most
\* once, so that the library gains the material once.
Thm_C4 ==
    notebook = "flipchip" =>
        /\ InProgress("AddMaterial") => newMaterial_name \notin library
        /\ Completed(Cell_material) => newMaterial_name \in library
        /\ addDone <= 1
        /\ addDone = 1 => newMaterial_name \in library

\* the cell was run again after it had added the material, and found it
Wit_C4 ==
    /\ notebook = "flipchip"
    /\ Completed(Cell_material)
    /\ matExists /\ addDone = 1

\* C5: the chips are given the new material only after the material cell
\* has run and the material is in the library, and when the simulation is
\* run both chips name newMaterial_name, a material of the library.
Thm_C5 ==
    notebook = "flipchip" =>
        /\ \A c \in DOMAIN AssignStmt :
              /\ AssignStmt[c] \in hist => "ansys_release" \in hist
              /\ AtStmt(AssignStmt[c]) => newMaterial_name \in library
        /\ InProgress("sim_run") =>
              \A c \in DOMAIN chips :
                 /\ chips[c].material = newMaterial_name
                 /\ chips[c].material \in library

\* the simulation runs on chips of the material that the notebook added
Wit_C5 ==
    /\ notebook = "flipchip"
    /\ InProgress("sim_run")
    /\ addDone = 1
    /\ \A c \in DOMAIN chips : chips[c].material = "Si_11.45"

\* C6: after any number of runs of the Xmon cell the design holds exactly
\* one component, Q1; after any runs of the Xmon and resonator cells that
\* end with the resonator cell it holds exactly one Q1 and one R1; no
\* component is ever refused for a name in use.
Thm_C6 ==
    notebook = "flipchip" =>
        /\ ~nameClash
        /\ Completed(Cell_xmon)
              => components = [n \in {"Q1", "R1"} |->
                                  IF n = "Q1" THEN 1 ELSE 0]
        /\ Completed(Cell_res)
              => components = [n \in {"Q1", "R1"} |-> 1]

\* the resonator cell was run again after the session had gone as far as
\* the simulation
Wit_C6 ==
    /\ notebook = "flipchip"
    /\ Completed(Cell_res)
    /\ session
    /\ components = [n \in {"Q1", "R1"} |-> 1]

\* C7: the assignment of the chip separation sets the center_z of Q_chip to
\* '10 um' and changes nothing else of design.chips: the entry of C_chip
\* and the material of Q_chip are as before, and no chip is added or lost.
Thm_C7 ==
    [][(AtStmt("set_center_z") /\ pc' # pc) =>
          /\ chips'["Q_chip"].center_z = "10 um"
          /\ chips'["C_chip"] = chips["C_chip"]
          /\ chips'["Q_chip"].material = chips["Q_chip"].material
          /\ DOMAIN chips' = DOMAIN chips
          /\ components' = components]_vars

\* the separation was set again on chips that already carry the new material
Wit_C7 ==
    /\ notebook = "flipchip"
    /\ Completed(Cell_sep)
    /\ chips["Q_chip"] = [center_z |-> "10 um", material |-> "Si_11.45"]
    /\ chips["C_chip"] = [center_z |-> "0 um", material |-> "Si_11.45"]

\* C8: a call that raises ends the run of its cell: it is the last statement
\* that run executes, the kernel is idle after it with the run in error, and
\* no statement of a run, the failed one included, is executed twice.
Thm_C8 ==
    /\ \A i \in 1 .. Len(ran) :
          ran[i].outcome = "raise"
              => /\ i = Len(ran)
                 /\ cell = 0 /\ active = <<>>
                 /\ lastStatus = "error"
    /\ \A i \in 1 .. Len(ran) : \A j \in 1 .. Len(ran) :
          i < j => ran[i].pos < ran[j].pos
    /\ lastStatus = "error" =>
          /\ ran # <<>>
          /\ ran[Len(ran)].outcome = "raise"
          /\ frontier < Len(Cells)
          /\ ran[Len(ran)].stmt = Cells[frontier + 1][ran[Len(ran)].pos]

\* the solver raised: the run of its cell is over, in error
Wit_C8 ==
    /\ notebook = "elmer"
    /\ lastStatus = "error"
    /\ ran = <<[stmt |-> "run", pos |-> 1, outcome |-> "raise"]>>
    /\ capacitance_matrix = 0

\* a run of the material cell has ended
MaterialRunEnded == cell = 0 /\ ran # <<>> /\ ran[1].stmt = "ProjectInfo"

EprCalls == {"EPRanalysis", "sim_run", "run_epr"}

====
